---- MODULE Spec2Model ----
(***************************************************************************)
(* drizzle-prisma-generator: a Prisma generator that turns the DMMF data   *)
(* model into Drizzle ORM schema text for PostgreSQL, MySQL and SQLite.    *)
(*                                                                         *)
(* Strings are TLA+ strings; TLC evaluates Len, Head, Tail, SubSeq and \o  *)
(* on them character by character, so the generated text below is the     *)
(* text the TypeScript template literals build.  The one character the    *)
(* TLA+ lexer cannot hold in a string literal is the backtick: BT stands   *)
(* for it everywhere (the sql`...` template delimiters and the escaper's   *)
(* third container).                                                       *)
(*                                                                         *)
(* `undefined` and `null` of a string- or array-valued property are both   *)
(* NULL; of an object-valued property (default, primaryKey) NULLREC.       *)
(***************************************************************************)
EXTENDS Integers, Sequences, FiniteSets, TLC

\* ------------------------------------------------------------------------
\* Bounds
\* ------------------------------------------------------------------------

\* number of onGenerate invocations observed in one generator process
MaxRuns == 2

\* ------------------------------------------------------------------------
\* JavaScript values and string primitives
\* ------------------------------------------------------------------------

NULL == "<null>"
NULLREC == [isNull |-> TRUE]
BT == "^"

\* a ?? b
Coalesce(a, b) == IF a = NULL THEN b ELSE a

\* truthiness of a string-valued optional property
Truthy(str) == str # NULL /\ str # ""

UpperChars == "ABCDEFGHIJKLMNOPQRSTUVWXYZ"
LowerChars == "abcdefghijklmnopqrstuvwxyz"

CharAt(str, i) == SubSeq(str, i, i)

\* index of the first occurrence of the character c in str at or after
\* position i, 0 when absent
RECURSIVE IndexOfCharFrom(_, _, _)
IndexOfCharFrom(str, c, i) ==
  IF i > Len(str) THEN 0
  ELSE IF CharAt(str, i) = c THEN i
  ELSE IndexOfCharFrom(str, c, i + 1)

IndexOfChar(str, c) == IndexOfCharFrom(str, c, 1)

LowerChar(c) ==
  LET i == IndexOfChar(UpperChars, c)
  IN IF i = 0 THEN c ELSE CharAt(LowerChars, i)

RECURSIVE toLowerCase(_)
toLowerCase(str) ==
  IF str = "" THEN "" ELSE LowerChar(Head(str)) \o toLowerCase(Tail(str))

\* String.prototype.endsWith
endsWith(str, suffix) ==
  /\ Len(str) >= Len(suffix)
  /\ SubSeq(str, Len(str) - Len(suffix) + 1, Len(str)) = suffix

\* String.prototype.startsWith
startsWith(str, prefix) ==
  /\ Len(str) >= Len(prefix)
  /\ SubSeq(str, 1, Len(prefix)) = prefix

\* String.prototype.includes
includes(str, sub) ==
  \E i \in 1..(Len(str) - Len(sub) + 1) : SubSeq(str, i, i + Len(sub) - 1) = sub

\* number of (possibly overlapping) occurrences of sub in str
Occurrences(str, sub) ==
  Cardinality({i \in 1..(Len(str) - Len(sub) + 1) : SubSeq(str, i, i + Len(sub) - 1) = sub})

\* String.prototype.slice(0, end) for 0 <= end
sliceTo(str, end) == SubSeq(str, 1, IF end > Len(str) THEN Len(str) ELSE end)

\* Array.prototype.join
RECURSIVE join(_, _)
join(list, sep) ==
  IF list = <<>> THEN ""
  ELSE IF Len(list) = 1 THEN list[1]
  ELSE list[1] \o sep \o join(Tail(list), sep)

\* Array.prototype.map for the one-argument callbacks of the generators
map(list, F(_)) == [i \in 1..Len(list) |-> F(list[i])]

\* Array.prototype.filter
filter(list, P(_)) == SelectSeq(list, P)

\* Array.prototype.find: the first element satisfying P, as a list of at
\* most one element (empty for `undefined`)
find(list, P(_)) ==
  LET hits == SelectSeq(list, P) IN IF hits = <<>> THEN <<>> ELSE <<hits[1]>>

\* `const name = value; body`: the body reads the value of the constant
Let(value, Body(_)) == Body(value)

\* String.prototype.replace(new RegExp(c, 'g'), to) for a one-character c
RECURSIVE replaceAll(_, _, _)
replaceAll(str, c, to) ==
  IF str = "" THEN ""
  ELSE (IF Head(str) = c THEN to ELSE Head(str)) \o replaceAll(Tail(str), c, to)

\* the escaper: backslashes are doubled, then the container is backslashed
s(src, container) ==
  replaceAll(replaceAll(src, "\\", "\\\\"), container, "\\" \o container)

\* ------------------------------------------------------------------------
\* String.prototype.localeCompare on the identifiers the program compares:
\* letters compare without case first; a tie is broken lower case first.
\* ------------------------------------------------------------------------

CollationOrder == "_0123456789abcdefghijklmnopqrstuvwxyz"

PrimaryWeight(c) == IndexOfChar(CollationOrder, LowerChar(c))

RECURSIVE PrimaryCompare(_, _)
PrimaryCompare(a, b) ==
  IF a = "" /\ b = "" THEN 0
  ELSE IF a = "" THEN -1
  ELSE IF b = "" THEN 1
  ELSE IF PrimaryWeight(Head(a)) < PrimaryWeight(Head(b)) THEN -1
  ELSE IF PrimaryWeight(Head(a)) > PrimaryWeight(Head(b)) THEN 1
  ELSE PrimaryCompare(Tail(a), Tail(b))

CaseWeight(c) == IF IndexOfChar(UpperChars, c) = 0 THEN 0 ELSE 1

RECURSIVE CaseCompare(_, _)
CaseCompare(a, b) ==
  IF a = "" \/ b = "" THEN 0
  ELSE IF CaseWeight(Head(a)) < CaseWeight(Head(b)) THEN -1
  ELSE IF CaseWeight(Head(a)) > CaseWeight(Head(b)) THEN 1
  ELSE CaseCompare(Tail(a), Tail(b))

localeCompare(a, b) ==
  LET p == PrimaryCompare(a, b)
  IN IF p # 0 THEN p ELSE CaseCompare(a, b)

\* the sorted list with one more name put in its place
RECURSIVE insertSorted(_, _)
insertSorted(list, name) ==
  IF list = <<>> THEN <<name>>
  ELSE IF localeCompare(name, Head(list)) < 0 THEN <<name>> \o list
  ELSE <<Head(list)>> \o insertSorted(Tail(list), name)

\* Array.from(set.values()).sort((a, b) => a.localeCompare(b)): the names of
\* a Set are distinct, so the sorted list does not depend on insertion order
RECURSIVE sortImports(_)
sortImports(set) ==
  IF set = {} THEN <<>>
  ELSE LET name == CHOOSE a \in set : TRUE
       IN insertSorted(sortImports(set \ {name}), name)

\* ------------------------------------------------------------------------
\* DMMF records (the properties of DMMF.Field and DMMF.Model the program
\* reads)
\* ------------------------------------------------------------------------

\* a scalar or enum field as Prisma reports it
ScalarField(name, type) ==
  [name |-> name, dbName |-> NULL, kind |-> "scalar", type |-> type,
   isList |-> FALSE, isRequired |-> TRUE, isUnique |-> FALSE, isId |-> FALSE,
   default |-> NULLREC, nativeType |-> NULL,
   relationName |-> NULL, relationFromFields |-> NULL,
   relationToFields |-> NULL, relationOnDelete |-> NULL]

\* the non-owning list side of a relation
ListRelationField(name, type, relationName) ==
  [ScalarField(name, type) EXCEPT
     !.kind = "object", !.isList = TRUE, !.relationName = relationName,
     !.relationFromFields = <<>>, !.relationToFields = <<>>]

\* the owning side of a relation
OwningRelationField(name, type, relationName, from, to, onDelete) ==
  [ScalarField(name, type) EXCEPT
     !.kind = "object", !.relationName = relationName,
     !.relationFromFields = from, !.relationToFields = to,
     !.relationOnDelete = onDelete]

Model(name, fields) ==
  [name |-> name, dbName |-> NULL, fields |-> fields,
   primaryKey |-> NULLREC, uniqueIndexes |-> <<>>]

\* ------------------------------------------------------------------------
\* extract-many-to-many-models.  A field object is named by its position
\* <<model index, field index>> in the cloned model list, so that the
\* in-place rewrites of generateJoinFields are seen through every alias.
\* ------------------------------------------------------------------------

FieldAt(models, ref) == models[ref[1]].fields[ref[2]]

\* models.flatMap((model) => model.fields)
RECURSIVE flatMapFields(_, _)
flatMapFields(models, i) ==
  IF i > Len(models) THEN <<>>
  ELSE [j \in 1..Len(models[i].fields) |-> <<i, j>>] \o flatMapFields(models, i + 1)

filterManyToManyRelationFields(models) ==
  LET fields == flatMapFields(models, 1)
      HasRelationName(ref) == Truthy(FieldAt(models, ref).relationName)
      relationFields == filter(fields, HasRelationName)
      notManyToMany ==
        {FieldAt(models, relationFields[i]).relationName :
           i \in {k \in 1..Len(relationFields) : ~FieldAt(models, relationFields[k]).isList}}
      IsManyToMany(ref) == FieldAt(models, ref).relationName \notin notManyToMany
  IN filter(relationFields, IsManyToMany)

\* the model named typeName, as a list of at most one element
findModel(typeName, models) ==
  LET Named(m) == m.name = typeName IN find(models, Named)

findIdField(model) ==
  LET IsId(f) == f.isId IN find(model.fields, IsId)

\* the result of a lookup is [err, value]; err is NULL when it returned
getJoinIdType(typeName, models) ==
  LET joinedModel == findModel(typeName, models)
  IN IF joinedModel = <<>>
     THEN [err |-> [type |-> "Error",
                    message |-> "Could not find referenced model of many-to-many relation"],
           value |-> NULL]
     ELSE LET idField == findIdField(joinedModel[1])
          IN IF idField = <<>>
             THEN [err |-> [type |-> "Error",
                            message |-> "No ID field on referenced model of many-to-many relation"],
                   value |-> NULL]
             ELSE [err |-> NULLREC, value |-> idField[1].type]

getJoinIdName(typeName, models) ==
  LET joinedModel == findModel(typeName, models)
  IN IF joinedModel = <<>>
     THEN [err |-> [type |-> "Error",
                    message |-> "Could not find referenced model of many-to-many relation"],
           value |-> NULL]
     ELSE LET idField == findIdField(joinedModel[1])
          IN IF idField = <<>>
             THEN [err |-> [type |-> "Error",
                            message |-> "No ID field on referenced model of many-to-many relation"],
                   value |-> NULL]
             ELSE [err |-> NULLREC, value |-> idField[1].name]

\* sorted(fields, (a, b) => a.type.localeCompare(b.type)) of a pair: the
\* sort is stable, the pair is swapped only when the comparator is positive
sorted(fields, models) ==
  IF localeCompare(FieldAt(models, fields[1]).type, FieldAt(models, fields[2]).type) > 0
  THEN <<fields[2], fields[1]>>
  ELSE fields

\* one scalar FK field of a join model
JoinScalarField(tableName, dbName, type) ==
  [ScalarField(tableName \o "Id", type) EXCEPT !.dbName = dbName]

\* one object relation field of a join model
JoinObjectField(tableName, manyTableName, toField) ==
  [ScalarField(tableName, tableName) EXCEPT
     !.kind = "object",
     !.relationName = tableName \o "To" \o manyTableName,
     !.relationFromFields = <<tableName \o "Id">>,
     !.relationToFields = <<toField>>]

\* returns [err, models, fields]: the model list after the in-place rewrite
\* of the two relation fields, and the four fields of the join model
generateJoinFields(fields, models) ==
  Let(sorted(fields, models), LAMBDA AB :
    LET A == AB[1]
        B == AB[2]
        aTableName == FieldAt(models, B).type
        bTableName == FieldAt(models, A).type
        manyTableName == FieldAt(models, A).type \o "To" \o FieldAt(models, B).type
    IN
    \* the assignments to A, then to B, then to A again
    Let([models EXCEPT
           ![A[1]].fields[A[2]] =
             [@ EXCEPT !.isList = TRUE,
                       !.type = bTableName \o "To" \o aTableName,
                       !.relationName = aTableName \o "To" \o manyTableName,
                       !.relationFromFields = <<>>,
                       !.relationToFields = <<>>],
           ![B[1]].fields[B[2]] =
             [@ EXCEPT !.isList = TRUE,
                       !.type = bTableName \o "To" \o aTableName,
                       !.relationName = bTableName \o "To" \o manyTableName],
           ![A[1]].fields[A[2]] =
             [@ EXCEPT !.relationFromFields = <<>>,
                       !.relationToFields = <<>>]], LAMBDA rewritten :
    Let(getJoinIdType(aTableName, rewritten), LAMBDA aType :
    IF aType.err # NULLREC
    THEN [err |-> aType.err, models |-> rewritten, fields |-> <<>>] ELSE
    Let(getJoinIdName(aTableName, rewritten), LAMBDA aName :
    IF aName.err # NULLREC
    THEN [err |-> aName.err, models |-> rewritten, fields |-> <<>>] ELSE
    Let(getJoinIdType(bTableName, rewritten), LAMBDA bType :
    IF bType.err # NULLREC
    THEN [err |-> bType.err, models |-> rewritten, fields |-> <<>>] ELSE
    Let(getJoinIdName(bTableName, rewritten), LAMBDA bName :
    IF bName.err # NULLREC
    THEN [err |-> bName.err, models |-> rewritten, fields |-> <<>>] ELSE
    [err |-> NULLREC,
     models |-> rewritten,
     fields |-> << JoinScalarField(aTableName, "A", aType.value),
                   JoinObjectField(aTableName, manyTableName, aName.value),
                   JoinScalarField(bTableName, "B", bType.value),
                   JoinObjectField(bTableName, manyTableName, bName.value) >>]))))))

\* the name given to the join model of the pair <<manyFirst, manySecond>>
JoinModelName(manyFirst, manySecond) == manySecond.type \o "To" \o manyFirst.type

\* returns [err, models, tables]
RECURSIVE generateModels(_, _, _)
generateModels(manyToManyFields, models, manyToManyTables) ==
  IF manyToManyFields = <<>>
  THEN [err |-> NULLREC, models |-> models, tables |-> manyToManyTables]
  ELSE
    LET manyFirst == Head(manyToManyFields)
        rest == Tail(manyToManyFields)
        SameRelation(ref) ==
          FieldAt(models, ref).relationName = FieldAt(models, manyFirst).relationName
        manySecond == find(rest, SameRelation)
    IN IF manySecond = <<>>
       THEN [err |-> NULLREC, models |-> models, tables |-> manyToManyTables]
       ELSE
         LET dbName == "_" \o FieldAt(models, manyFirst).relationName
             name == JoinModelName(FieldAt(models, manyFirst), FieldAt(models, manySecond[1]))
         IN Let(generateJoinFields(<<manyFirst, manySecond[1]>>, models), LAMBDA joined :
              LET OtherRelation(ref) ==
                    FieldAt(joined.models, ref).relationName
                      # FieldAt(joined.models, manyFirst).relationName
              IN IF joined.err # NULLREC
                 THEN [err |-> joined.err, models |-> joined.models,
                       tables |-> manyToManyTables]
                 ELSE generateModels(
                        filter(rest, OtherRelation),
                        joined.models,
                        Append(manyToManyTables,
                               [name |-> name, dbName |-> dbName, fields |-> joined.fields,
                                primaryKey |-> NULLREC, uniqueIndexes |-> <<>>])))

extractManyToManyModels(models) ==
  LET manyToManyFields == filterManyToManyRelationFields(models)
  IN IF manyToManyFields = <<>>
     THEN [err |-> NULLREC, models |-> models, tables |-> <<>>]
     ELSE generateModels(manyToManyFields, models, <<>>)

\* ------------------------------------------------------------------------
\* Errors.  A thrown value is [type, message]; NULLREC means nothing thrown.
\* ------------------------------------------------------------------------

GeneratorError(message) == [type |-> "GeneratorError", message |-> message]
Error(message) == [type |-> "Error", message |-> message]
TypeError(message) == [type |-> "TypeError", message |-> message]

\* ------------------------------------------------------------------------
\* Default values.  field.default is NULLREC, a literal
\* [kind |-> "number" | "string" | "boolean", <kind> |-> v], a list of literals
\* [kind |-> "list", items] or a function call [kind |-> "fn", name, args].
\* ------------------------------------------------------------------------

NumberLit(n) == [kind |-> "number", number |-> n]
StringLit(str) == [kind |-> "string", string |-> str]
BooleanLit(b) == [kind |-> "boolean", boolean |-> b]
ListDefault(items) == [kind |-> "list", items |-> items]
FnDefault(name, args) == [kind |-> "fn", name |-> name, args |-> args]

\* JavaScript truthiness of field.default
DefaultTruthy(defVal) ==
  IF defVal = NULLREC THEN FALSE
  ELSE IF defVal.kind = "number" THEN defVal.number # 0
  ELSE IF defVal.kind = "string" THEN defVal.string # ""
  ELSE IF defVal.kind = "boolean" THEN defVal.boolean
  ELSE TRUE

\* JSON.stringify of a literal
JSONstringify(lit) ==
  IF lit.kind = "number" THEN ToString(lit.number)
  ELSE IF lit.kind = "boolean" THEN (IF lit.boolean THEN "true" ELSE "false")
  ELSE "\"" \o replaceAll(replaceAll(lit.string, "\\", "\\\\"), "\"", "\\\"") \o "\""

\* String(e) of a literal
String(lit) ==
  IF lit.kind = "number" THEN ToString(lit.number)
  ELSE IF lit.kind = "boolean" THEN (IF lit.boolean THEN "true" ELSE "false")
  ELSE lit.string

Digits == "0123456789"

\* /^uuid\([0-9]*\)$/.test(name)
IsUuidCall(name) ==
  /\ startsWith(name, "uuid(")
  /\ endsWith(name, ")")
  /\ \A i \in 6..(Len(name) - 1) : IndexOfChar(Digits, CharAt(name, i)) # 0

\* the name of a function-call default, `undefined` otherwise (the defVal
\* argument of the Postgres type mapper)
DefaultFunctionName(field) ==
  IF field.default # NULLREC /\ field.default.kind = "fn"
  THEN field.default.name ELSE NULL

\* ------------------------------------------------------------------------
\* Type mappers.  The result is [err, text, imports]: text is NULL for
\* `undefined`, imports are the names added to the dialect's import set.
\* ------------------------------------------------------------------------

Mapped(text, import) == [err |-> NULLREC, text |-> text, imports |-> {import}]
Unmapped == [err |-> NULLREC, text |-> NULL, imports |-> {}]
Thrown(err) == [err |-> err, text |-> NULL, imports |-> {}]

pgPrismaToDrizzleType(type, colDbName, defVal, nativeType) ==
  LET t == toLowerCase(type)
  IN CASE t = "bigint" -> Mapped("bigint('" \o colDbName \o "', { mode: 'bigint' })", "bigint")
       [] t = "boolean" -> Mapped("boolean('" \o colDbName \o "')", "boolean")
       [] t = "bytes" ->
            Thrown(GeneratorError("Drizzle ORM doesn't support binary data type for PostgreSQL"))
       [] t = "datetime" ->
            IF Truthy(nativeType)
            THEN Mapped(nativeType \o "('" \o colDbName \o "', { precision: 3 })", nativeType)
            ELSE Mapped("timestamp('" \o colDbName \o "', { precision: 3 })", "timestamp")
       [] t = "decimal" ->
            Mapped("decimal('" \o colDbName \o "', { precision: 65, scale: 30 })", "decimal")
       [] t = "float" -> Mapped("doublePrecision('" \o colDbName \o "')", "doublePrecision")
       [] t = "json" -> Mapped("jsonb('" \o colDbName \o "')", "jsonb")
       [] t = "int" ->
            IF defVal = "autoincrement"
            THEN Mapped("serial('" \o colDbName \o "')", "serial")
            ELSE Mapped("integer('" \o colDbName \o "')", "integer")
       [] t = "string" -> Mapped("text('" \o colDbName \o "')", "text")
       [] OTHER -> Unmapped

\* 'x', 'y', ... : the value list of an enum
EnumValueList(prismaEnum) ==
  LET Quoted(val) == "'" \o Coalesce(val.dbName, val.name) \o "'"
  IN join(map(prismaEnum.values, Quoted), ", ")

\* prismaEnum is a list of at most one enum (empty for `undefined`)
mysqlPrismaToDrizzleType(type, colDbName, prismaEnum, nativeType) ==
  LET t == toLowerCase(type)
  IN IF prismaEnum # <<>>
     THEN Mapped("mysqlEnum('" \o colDbName \o "', [" \o EnumValueList(prismaEnum[1]) \o "])",
                 "mysqlEnum")
     ELSE
       CASE t = "bigint" -> Mapped("bigint('" \o colDbName \o "', { mode: 'bigint' })", "bigint")
         [] t = "boolean" -> Mapped("boolean('" \o colDbName \o "')", "boolean")
         [] t = "bytes" ->
              Thrown(GeneratorError("Drizzle ORM doesn't support binary data type for MySQL"))
         [] t = "datetime" ->
              IF nativeType = "time"
              THEN Mapped("time('" \o colDbName \o "', { precision: 3 })", "time")
              ELSE Mapped("datetime('" \o colDbName \o "', { fsp: 3 })", "datetime")
         [] t = "decimal" ->
              Mapped("decimal('" \o colDbName \o "', { precision: 65, scale: 30 })", "decimal")
         [] t = "float" -> Mapped("double('" \o colDbName \o "')", "double")
         [] t = "json" -> Mapped("json('" \o colDbName \o "')", "json")
         [] t = "int" -> Mapped("int('" \o colDbName \o "')", "int")
         [] t = "string" -> Mapped("varchar('" \o colDbName \o "', { length: 191 })", "varchar")
         [] OTHER -> Unmapped

sqlitePrismaToDrizzleType(type, colDbName) ==
  LET t == toLowerCase(type)
  IN CASE t = "bigint" -> Mapped("int('" \o colDbName \o "')", "int")
       [] t = "boolean" -> Mapped("int('" \o colDbName \o "', { mode: 'boolean' })", "int")
       [] t = "bytes" -> Mapped("blob('" \o colDbName \o "', { mode: 'buffer' })", "blob")
       [] t = "datetime" -> Mapped("numeric('" \o colDbName \o "')", "numeric")
       [] t = "decimal" -> Mapped("numeric('" \o colDbName \o "')", "numeric")
       [] t = "float" -> Mapped("real('" \o colDbName \o "')", "real")
       [] t = "json" -> Mapped("text('" \o colDbName \o "', { mode: 'json' })", "text")
       [] t = "int" -> Mapped("int('" \o colDbName \o "')", "int")
       [] t = "string" -> Mapped("text('" \o colDbName \o "')", "text")
       [] OTHER -> Unmapped

\* ------------------------------------------------------------------------
\* Column modifiers.  The result is [err, column, drizzle]: drizzle are the
\* names added to the sibling 'drizzle-orm' import set.
\* ------------------------------------------------------------------------

Modified(column, drizzle) == [err |-> NULLREC, column |-> column, drizzle |-> drizzle]

\* flag modifiers that leave .notNull() to the key modifiers
FlagModifiers_notNullImpliedByKey(field, column) ==
  column \o (IF field.isRequired /\ ~field.isId /\ ~field.isUnique THEN ".notNull()" ELSE "")
         \o (IF field.isId THEN ".primaryKey()" ELSE "")
         \o (IF field.isUnique THEN ".unique()" ELSE "")

\* .notNull(), .primaryKey(), .unique() in this order
FlagModifiers(field, column) ==
  column \o (IF field.isRequired THEN ".notNull()" ELSE "")
         \o (IF field.isId THEN ".primaryKey()" ELSE "")
         \o (IF field.isUnique THEN ".unique()" ELSE "")

\* .default(sql`<dbgenerated text>`): s(value.args[0], '`') reads .replace of
\* the first argument
DbGenerated(value, column) ==
  IF value.args = <<>>
  THEN [err |-> TypeError("Cannot read properties of undefined (reading 'replace')"),
        column |-> column, drizzle |-> {}]
  ELSE IF value.args[1].kind # "string"
  THEN [err |-> TypeError("src.replace is not a function"), column |-> column, drizzle |-> {}]
  ELSE Modified(column \o ".default(sql" \o BT \o s(value.args[1].string, BT) \o BT \o ")", {"sql"})

\* name(args) of an unrecognised default function, Postgres and MySQL
FunctionCallText(value) ==
  value.name \o
    (IF Len(value.args) # 0
     THEN "(" \o join(map(value.args, String), ", ") \o ")"
     ELSE IF endsWith(value.name, ")") THEN "" ELSE "()")

pgAddColumnModifiers(field, column0) ==
  LET column == FlagModifiers(field, column0 \o (IF field.isList THEN ".array()" ELSE ""))
      defVal == field.default
  IN IF ~DefaultTruthy(defVal) THEN Modified(column, {})
     ELSE IF defVal.kind \in {"number", "string", "boolean"}
     THEN Modified(column \o ".default(" \o JSONstringify(defVal) \o ")", {})
     ELSE IF defVal.kind = "list"
     THEN Modified(column \o ".default([" \o join(map(defVal.items, JSONstringify), ", ") \o "])", {})
     ELSE IF defVal.name = "now" THEN Modified(column \o ".defaultNow()", {})
     ELSE IF defVal.name = "autoincrement" THEN Modified(column, {})
     ELSE IF defVal.name = "dbgenerated" THEN DbGenerated(defVal, column)
     ELSE IF IsUuidCall(defVal.name)
     THEN Modified(column \o ".default(sql" \o BT \o "uuid()" \o BT \o ")", {"sql"})
     ELSE Modified(column \o ".default(sql" \o BT \o s(FunctionCallText(defVal), BT) \o BT \o ")",
                   {"sql"})

mysqlAddColumnModifiers(field, column0) ==
  LET column == FlagModifiers(field, column0)
      defVal == field.default
  IN IF ~DefaultTruthy(defVal) THEN Modified(column, {})
     ELSE IF defVal.kind \in {"number", "string", "boolean"}
     THEN Modified(column \o ".default(" \o JSONstringify(defVal) \o ")", {})
     ELSE IF defVal.kind = "list"
     THEN Modified(column \o ".default([" \o join(map(defVal.items, JSONstringify), ", ") \o "])", {})
     ELSE IF defVal.name = "now"
     THEN Modified(column \o ".default(sql" \o BT \o "CURRENT_TIMESTAMP" \o BT \o ")", {})
     ELSE IF defVal.name = "autoincrement" THEN Modified(column \o ".autoincrement()", {})
     ELSE IF defVal.name = "dbgenerated" THEN DbGenerated(defVal, column)
     ELSE IF IsUuidCall(defVal.name)
     THEN Modified(column \o ".default(sql" \o BT \o "uuid()" \o BT \o ")", {"sql"})
     ELSE Modified(column \o ".default(sql" \o BT \o s(FunctionCallText(defVal), BT) \o BT \o ")",
                   {"sql"})

sqliteAddColumnModifiers(field, column0) ==
  LET column == FlagModifiers(field, column0)
      defVal == field.default
  IN IF ~DefaultTruthy(defVal) THEN Modified(column, {})
     ELSE IF defVal.kind \in {"number", "string", "boolean"}
     THEN Modified(column \o ".default(" \o JSONstringify(defVal) \o ")", {})
     ELSE IF defVal.kind = "list"
     THEN Modified(column \o ".default(\n\t\t\t\t\t\tsql" \o BT \o "ARRAY["
                     \o join(map(defVal.items, String), ",") \o "]" \o BT \o "))",
                   {"sql"})
     ELSE IF defVal.name = "now"
     THEN Modified(column \o ".default(sql" \o BT \o "DATE('now')" \o BT \o ")", {})
     ELSE IF defVal.name = "autoincrement" THEN Modified(column, {})
     ELSE IF defVal.name = "dbgenerated" THEN DbGenerated(defVal, column)
     ELSE Modified(column \o ".default(sql" \o BT
                     \o s(defVal.name \o "(" \o join(map(defVal.args, String), ", ") \o ")", BT)
                     \o BT \o ")",
                   {"sql"})

\* ------------------------------------------------------------------------
\* Columns.  The result is [err, column, imports, drizzle]; column is NULL
\* when the field yields no column.
\* ------------------------------------------------------------------------

Column(err, column, imports, drizzle) ==
  [err |-> err, column |-> column, imports |-> imports, drizzle |-> drizzle]

pgPrismaToDrizzleColumn(field, nativeType) ==
  LET colDbName == s(Coalesce(field.dbName, field.name), "'")
      column == "\t" \o field.name \o ": "
  IN IF field.kind = "enum"
     THEN Let(pgAddColumnModifiers(field, column \o field.type \o "('" \o colDbName \o "')"),
              LAMBDA m : Column(m.err, m.column, {}, m.drizzle))
     ELSE
       Let(pgPrismaToDrizzleType(field.type, colDbName, DefaultFunctionName(field), nativeType),
           LAMBDA drizzleType :
         IF drizzleType.err # NULLREC THEN Column(drizzleType.err, NULL, {}, {})
         ELSE IF ~Truthy(drizzleType.text) THEN Column(NULLREC, NULL, drizzleType.imports, {})
         ELSE Let(pgAddColumnModifiers(field, column \o drizzleType.text),
                  LAMBDA m : Column(m.err, m.column, drizzleType.imports, m.drizzle)))

mysqlPrismaToDrizzleColumn(field, enums, nativeType) ==
  LET colDbName == s(Coalesce(field.dbName, field.name), "'")
      column == "\t" \o field.name \o ": "
      OfFieldType(e) == e.name = field.type
  IN Let(mysqlPrismaToDrizzleType(
           field.type, colDbName,
           IF field.kind = "enum" THEN find(enums, OfFieldType) ELSE <<>>,
           nativeType),
         LAMBDA drizzleType :
       IF drizzleType.err # NULLREC THEN Column(drizzleType.err, NULL, {}, {})
       ELSE IF ~Truthy(drizzleType.text) THEN Column(NULLREC, NULL, drizzleType.imports, {})
       ELSE Let(mysqlAddColumnModifiers(field, column \o drizzleType.text),
                LAMBDA m : Column(m.err, m.column, drizzleType.imports, m.drizzle)))

sqlitePrismaToDrizzleColumn(field) ==
  LET colDbName == s(Coalesce(field.dbName, field.name), "'")
      column == "\t" \o field.name \o ": "
  IN Let(sqlitePrismaToDrizzleType(field.type, colDbName), LAMBDA drizzleType :
       IF ~Truthy(drizzleType.text) THEN Column(NULLREC, NULL, drizzleType.imports, {})
       ELSE Let(sqliteAddColumnModifiers(field, column \o drizzleType.text),
                LAMBDA m : Column(m.err, m.column, drizzleType.imports, m.drizzle)))

\* ------------------------------------------------------------------------
\* The schema text as @mrleebo/prisma-ast reads it: a list of model blocks
\* [name, properties], a property being a field [name, attributes] and an
\* attribute [group, name] (@db.Time is [group |-> "db", name |-> "Time"]).
\* ------------------------------------------------------------------------

\* prismaSchemaAstBuilder.findByType('model', { name })
findModelAst(datamodel, name) ==
  LET Named(block) == block.name = name IN find(datamodel, Named)

\* prismaSchemaAstBuilder.findByType('field', { name, within })
findFieldAst(properties, name) ==
  LET Named(prop) == prop.name = name IN find(properties, Named)

\* fieldAst.attributes?.find(attr => attr.group === 'db')?.name.toLowerCase()
dbAttributeName(fieldAst) ==
  LET IsDb(attr) == attr.group = "db"
      dbAttribute == find(fieldAst.attributes, IsDb)
  IN IF dbAttribute = <<>> THEN NULL ELSE toLowerCase(dbAttribute[1].name)

\* ------------------------------------------------------------------------
\* The three dialect generators.  Dialects are "pg", "mysql" and "sqlite".
\* ------------------------------------------------------------------------

Dialects == {"pg", "mysql", "sqlite"}

tableConstructor(d) ==
  CASE d = "pg" -> "pgTable" [] d = "mysql" -> "mysqlTable" [] d = "sqlite" -> "sqliteTable"

coreModule(d) ==
  CASE d = "pg" -> "drizzle-orm/pg-core"
    [] d = "mysql" -> "drizzle-orm/mysql-core"
    [] d = "sqlite" -> "drizzle-orm/sqlite-core"

\* the module-scope import sets as the modules initialise them
initialImports(d) == {tableConstructor(d)}
initialDrizzleImports(d) == {}

\* does the generator look every model and field up in the schema text?
readsSchemaAst(d) == d \in {"pg", "mysql"}

\* the column of one field of a table whose schema block is modelAst
\* (a list of at most one block; unused on SQLite)
columnOfField(d, field, modelAst, enums) ==
  IF ~readsSchemaAst(d) THEN sqlitePrismaToDrizzleColumn(field)
  ELSE LET fieldAst == findFieldAst(modelAst[1].properties, field.name)
       IN IF fieldAst = <<>>
          THEN Column(Error("Model " \o modelAst[1].name \o " not found in schema"), NULL, {}, {})
          ELSE IF d = "pg"
          THEN pgPrismaToDrizzleColumn(field, dbAttributeName(fieldAst[1]))
          ELSE mysqlPrismaToDrizzleColumn(field, enums, dbAttributeName(fieldAst[1]))

\* schemaTable.fields.map(field => [field.name, column]): acc is
\* [err, entries, imports, drizzle]; the map stops at the first throw
RECURSIVE columnEntries(_, _, _, _, _)
columnEntries(d, fields, modelAst, enums, acc) ==
  IF fields = <<>> \/ acc.err # NULLREC THEN acc
  ELSE Let(columnOfField(d, Head(fields), modelAst, enums), LAMBDA c :
         columnEntries(d, Tail(fields), modelAst, enums,
           [err |-> c.err,
            entries |-> IF c.err = NULLREC
                        THEN Append(acc.entries, <<Head(fields).name, c.column>>)
                        ELSE acc.entries,
            imports |-> acc.imports \cup c.imports,
            drizzle |-> acc.drizzle \cup c.drizzle]))

\* an object with string keys, as the list of its <<key, value>> entries in
\* property order
hasKey(obj, key) == \E i \in 1..Len(obj) : obj[i][1] = key

getKey(obj, key) ==
  IF hasKey(obj, key)
  THEN obj[CHOOSE i \in 1..Len(obj) : obj[i][1] = key][2]
  ELSE NULL

setKey(obj, key, value) ==
  IF hasKey(obj, key)
  THEN [i \in 1..Len(obj) |-> IF obj[i][1] = key THEN <<key, value>> ELSE obj[i]]
  ELSE Append(obj, <<key, value>>)

\* Object.fromEntries(entries.filter(e => e[1] !== undefined))
RECURSIVE fromEntries(_, _)
fromEntries(entries, obj) ==
  IF entries = <<>> THEN obj
  ELSE fromEntries(Tail(entries),
                   IF Head(entries)[2] = NULL THEN obj
                   ELSE setKey(obj, Head(entries)[1], Head(entries)[2]))

\* Object.values
objectValues(obj) == [i \in 1..Len(obj) |-> obj[i][2]]

\* string + of a possibly undefined left operand
Concat(a, b) == (IF a = NULL THEN "undefined" ELSE a) \o b

isRelField(field) == field.relationToFields # NULL /\ field.relationFromFields # NULL

ownsForeignKeys(field) ==
  field.relationFromFields # NULL /\ Len(field.relationFromFields) # 0

\* the delete actions a dialect's switch recognises
knownDeleteActions(d) ==
  IF d = "sqlite"
  THEN {NULL, "Cascade", "SetNull", "Restrict", "NoAction"}
  ELSE {NULL, "Cascade", "SetNull", "SetDefault", "Restrict", "NoAction"}

deleteActionKeyword(onDelete) ==
  CASE onDelete = NULL -> "cascade"
    [] onDelete = "Cascade" -> "cascade"
    [] onDelete = "SetNull" -> "set null"
    [] onDelete = "SetDefault" -> "set default"
    [] onDelete = "Restrict" -> "restrict"
    [] onDelete = "NoAction" -> "no action"

\* does the dialect put a one-column reference on the column itself?
inlinesSingleColumn(d) == d = "sqlite"

qualified(owner, names) ==
  LET Q(n) == owner \o "." \o n IN join(map(names, Q), ", ")

foreignKeyDeclaration(schemaTable, field, fkeyName, deleteAction) ==
  "\t'" \o fkeyName \o "': foreignKey({\n\t\tname: '" \o fkeyName \o "',\n\t\tcolumns: ["
    \o qualified(schemaTable.name, field.relationFromFields)
    \o "],\n\t\tforeignColumns: ["
    \o qualified(field.type, field.relationToFields)
    \o "]\n\t})"
    \o (IF deleteAction # "" /\ deleteAction # "no action"
        THEN "\n\t\t.onDelete('" \o deleteAction \o "')" ELSE "")
    \o "\n\t\t.onUpdate('cascade')"

\* relFields.map(field => ...).filter(e => e !== undefined): acc is
\* [err, imports, columnFields, relations]
RECURSIVE relationDeclarations(_, _, _, _)
relationDeclarations(d, schemaTable, relFields, acc) ==
  IF relFields = <<>> \/ acc.err # NULLREC THEN acc
  ELSE
    LET field == Head(relFields)
        more == Tail(relFields)
        fkeyName == s(Coalesce(schemaTable.dbName, schemaTable.name) \o "_"
                        \o Coalesce(field.dbName, field.name) \o "_fkey", "'")
    IN IF ~ownsForeignKeys(field)
       THEN relationDeclarations(d, schemaTable, more, acc)
       ELSE IF /\ inlinesSingleColumn(d)
               /\ Len(field.relationFromFields) = 1
               /\ Len(field.relationToFields) = 1
       THEN relationDeclarations(d, schemaTable, more,
              [acc EXCEPT !.columnFields =
                 setKey(@, field.relationFromFields[1],
                        Concat(getKey(@, field.relationFromFields[1]),
                               ".references(() => " \o field.type \o "."
                                 \o field.relationToFields[1] \o ")"))])
       ELSE IF field.relationOnDelete \notin knownDeleteActions(d)
       THEN [acc EXCEPT !.err =
               GeneratorError("Unknown delete action on relation " \o fkeyName \o ": "
                                \o field.relationOnDelete)]
       ELSE relationDeclarations(d, schemaTable, more,
              [acc EXCEPT
                 !.imports = @ \cup {"foreignKey"},
                 !.relations = Append(@, foreignKeyDeclaration(
                                  schemaTable, field, fkeyName,
                                  deleteActionKeyword(field.relationOnDelete)))])

\* the key and the name of one unique index
uniqueIndexName(schemaTable, idx) ==
  s(Coalesce(idx.name, schemaTable.name \o "_" \o join(idx.fields, "_") \o "_key"), "'")

\* the declaration key re-suffixed whenever the name ends in _key
uniqueIndexKey_suffixRewritten(schemaTable, idx) ==
  LET idxName == uniqueIndexName(schemaTable, idx)
  IN IF endsWith(idxName, "_key")
     THEN sliceTo(idxName, Len(idxName) - 4) \o "_unique_idx"
     ELSE idxName

uniqueIndexKey(schemaTable, idx) ==
  LET idxName == uniqueIndexName(schemaTable, idx)
  IN IF Truthy(idx.name) THEN idxName
     ELSE sliceTo(idxName, Len(idxName) - 4) \o "_unique_idx"

uniqueIndexDeclaration(schemaTable, idx) ==
  "\t'" \o uniqueIndexKey(schemaTable, idx) \o "': uniqueIndex('"
    \o uniqueIndexName(schemaTable, idx) \o "')\n\t\t.on("
    \o qualified(schemaTable.name, idx.fields) \o ")"

uniqueIndexDeclarations(schemaTable) ==
  LET U(idx) == uniqueIndexDeclaration(schemaTable, idx)
  IN map(schemaTable.uniqueIndexes, U)

primaryKeyDeclaration(schemaTable) ==
  LET pk == schemaTable.primaryKey
      pkName == s(Coalesce(pk.name, schemaTable.name \o "_cpk"), "'")
  IN "\t'" \o pkName \o "': primaryKey({\n\t\tname: '" \o pkName \o "',\n\t\tcolumns: ["
       \o qualified(schemaTable.name, pk.fields) \o "]\n\t})"

tableDeclaration(d, schemaTable, columnFields, indexes) ==
  "export const " \o schemaTable.name \o " = " \o tableConstructor(d) \o "('"
    \o s(Coalesce(schemaTable.dbName, schemaTable.name), "'") \o "', {\n"
    \o join(objectValues(columnFields), ",\n") \o "\n}"
    \o (IF Len(indexes) # 0
        THEN ", (" \o schemaTable.name \o ") => ({\n" \o join(indexes, ",\n") \o "\n})"
        ELSE "")
    \o ");"

relationCombinator(field) == IF ownsForeignKeys(field) THEN "one" ELSE "many"

\* the insertion-ordered Set relationArgs, as the list of its values
RECURSIVE relationArgs(_, _)
relationArgs(relFields, acc) ==
  IF relFields = <<>> THEN acc
  ELSE relationArgs(Tail(relFields),
         IF \E i \in 1..Len(acc) : acc[i] = relationCombinator(Head(relFields))
         THEN acc ELSE Append(acc, relationCombinator(Head(relFields))))

rqbField(schemaTable, field) ==
  LET relName == s(Coalesce(field.relationName, ""), "'")
  IN "\t" \o field.name \o ": " \o
     (IF ownsForeignKeys(field)
      THEN "one(" \o field.type \o ", {\n\t\trelationName: '" \o relName
             \o "',\n\t\tfields: [" \o qualified(schemaTable.name, field.relationFromFields)
             \o "],\n\t\treferences: [" \o qualified(field.type, field.relationToFields)
             \o "]\n\t})"
      ELSE "many(" \o field.type \o ", {\n\t\trelationName: '" \o relName \o "'\n\t})")

rqbRelation(schemaTable, relFields) ==
  LET R(field) == rqbField(schemaTable, field)
  IN "export const " \o schemaTable.name \o "Relations = relations(" \o schemaTable.name
       \o ", ({ " \o join(relationArgs(relFields, <<>>), ", ") \o " }) => ({\n"
       \o join(map(relFields, R), ",\n") \o "\n}));"

\* one iteration of `for (const schemaTable of modelsWithImplicit)`: st is
\* [err, imports, drizzle, tables, rqb]
tableStep(d, options, schemaTable, st) ==
  LET hasUniques == Len(schemaTable.uniqueIndexes) # 0
      hasPk == schemaTable.primaryKey # NULLREC
      relFields == filter(schemaTable.fields, isRelField)
  IN
  Let(IF readsSchemaAst(d) THEN findModelAst(options.datamodel, schemaTable.name) ELSE <<>>,
      LAMBDA modelAst :
  IF readsSchemaAst(d) /\ modelAst = <<>>
  THEN [st EXCEPT !.err = Error("Model " \o schemaTable.name \o " not found in schema")] ELSE
  Let(columnEntries(d, schemaTable.fields, modelAst, options.enums,
                    [err |-> NULLREC, entries |-> <<>>,
                     imports |-> st.imports, drizzle |-> st.drizzle]),
      LAMBDA cols :
  IF cols.err # NULLREC
  THEN [st EXCEPT !.err = cols.err, !.imports = cols.imports, !.drizzle = cols.drizzle] ELSE
  Let(relationDeclarations(d, schemaTable, relFields,
                           [err |-> NULLREC, imports |-> cols.imports,
                            columnFields |-> fromEntries(cols.entries, <<>>),
                            relations |-> <<>>]),
      LAMBDA rels :
  IF rels.err # NULLREC
  THEN [st EXCEPT !.err = rels.err, !.imports = rels.imports, !.drizzle = cols.drizzle] ELSE
  Let(rels.relations
        \o (IF hasUniques THEN uniqueIndexDeclarations(schemaTable) ELSE <<>>)
        \o (IF hasPk THEN <<primaryKeyDeclaration(schemaTable)>> ELSE <<>>),
      LAMBDA indexes :
  [err |-> NULLREC,
   imports |-> rels.imports \cup (IF hasUniques THEN {"uniqueIndex"} ELSE {})
                            \cup (IF hasPk THEN {"primaryKey"} ELSE {}),
   drizzle |-> cols.drizzle \cup (IF Len(relFields) # 0 THEN {"relations"} ELSE {}),
   tables |-> Append(st.tables, tableDeclaration(d, schemaTable, rels.columnFields, indexes)),
   rqb |-> IF Len(relFields) # 0
           THEN Append(st.rqb, rqbRelation(schemaTable, relFields))
           ELSE st.rqb]))))

RECURSIVE tableLoop(_, _, _, _)
tableLoop(d, options, modelsWithImplicit, st) ==
  IF modelsWithImplicit = <<>> \/ st.err # NULLREC THEN st
  ELSE tableLoop(d, options, Tail(modelsWithImplicit),
                 tableStep(d, options, Head(modelsWithImplicit), st))

\* the pgEnum declarations of the non-empty enums
pgEnumDeclaration(schemaEnum) ==
  "export const " \o schemaEnum.name \o " = pgEnum('"
    \o s(Coalesce(schemaEnum.dbName, schemaEnum.name), "'") \o "', ["
    \o EnumValueList(schemaEnum) \o "])"

pgEnums(enums) ==
  LET NonEmpty(e) == Len(e.values) # 0
  IN map(filter(enums, NonEmpty), pgEnumDeclaration)

\* one import statement, NULL for `undefined`
importStatement(names, from) ==
  IF names = {} THEN NULL
  ELSE "import { " \o join(sortImports(names), ", ") \o " } from '" \o from \o "'"

importsStr(d, imports, drizzle) ==
  LET IsDefined(e) == e # NULL
      str == join(filter(<<importStatement(drizzle, "drizzle-orm"),
                           importStatement(imports, coreModule(d))>>, IsDefined), "\n")
  IN IF Len(str) = 0 THEN NULL ELSE str

\* an output that puts the relation declarations before the tables
outputText_relationsFirst(d, imports, drizzle, enumDeclarations, tables, rqb) ==
  LET IsDefined(e) == e # NULL
  IN join(filter(<<importsStr(d, imports, drizzle)>> \o enumDeclarations \o rqb \o tables,
                 IsDefined), "\n\n")

\* [importsStr, ...pgEnums, ...tables, ...rqb].filter(defined).join('\n\n')
outputText(d, imports, drizzle, enumDeclarations, tables, rqb) ==
  LET IsDefined(e) == e # NULL
  IN join(filter(<<importsStr(d, imports, drizzle)>> \o enumDeclarations \o tables \o rqb,
                 IsDefined), "\n\n")

\* JSON.parse(JSON.stringify(models)): a deep copy of the DMMF records
clonedModels(models) == models

\* a working list that is the caller's list itself: its rewrites are the
\* caller's
inputAfter_aliased(models, working) == working

\* the caller's model list after the run: the working list is a copy that
\* shares no object with it, so the in-place rewrites do not reach it
inputAfter(models, working) == models

\* one invocation of a dialect generator on options, the module-scope import
\* sets holding imports and drizzle when it starts.  The result is
\* [err, output, imports, drizzle, modelsWithImplicit, tables, rqb, models],
\* models being the caller's list after the run.
generateSchema(d, options, imports, drizzle) ==
  Let(extractManyToManyModels(clonedModels(options.models)), LAMBDA manyToMany :
  IF manyToMany.err # NULLREC
  THEN [err |-> manyToMany.err, output |-> NULL, imports |-> imports, drizzle |-> drizzle,
        modelsWithImplicit |-> <<>>, tables |-> <<>>, rqb |-> <<>>,
        models |-> inputAfter(options.models, manyToMany.models)] ELSE
  Let(manyToMany.models \o manyToMany.tables, LAMBDA modelsWithImplicit :
  Let(IF d = "pg" THEN pgEnums(options.enums) ELSE <<>>, LAMBDA enumDeclarations :
  Let(tableLoop(d, options, modelsWithImplicit,
                [err |-> NULLREC,
                 imports |-> imports \cup (IF Len(enumDeclarations) # 0
                                           THEN {"pgEnum"} ELSE {}),
                 drizzle |-> drizzle, tables |-> <<>>, rqb |-> <<>>]),
      LAMBDA st :
  IF st.err # NULLREC
  THEN [err |-> st.err, output |-> NULL, imports |-> st.imports, drizzle |-> st.drizzle,
        modelsWithImplicit |-> modelsWithImplicit, tables |-> st.tables, rqb |-> st.rqb,
        models |-> inputAfter(options.models, manyToMany.models)]
  ELSE [err |-> NULLREC,
        output |-> outputText(d, st.imports, st.drizzle, enumDeclarations,
                              st.tables, st.rqb),
        imports |-> st.imports, drizzle |-> st.drizzle,
        modelsWithImplicit |-> modelsWithImplicit,
        tables |-> st.tables, rqb |-> st.rqb,
        models |-> inputAfter(options.models, manyToMany.models)]))))

generatePgSchema(options, imports, drizzle) == generateSchema("pg", options, imports, drizzle)
generateMySqlSchema(options, imports, drizzle) == generateSchema("mysql", options, imports, drizzle)
generateSQLiteSchema(options, imports, drizzle) == generateSchema("sqlite", options, imports, drizzle)

\* ------------------------------------------------------------------------
\* The generator options Prisma hands to onGenerate: the provider of the
\* first datasource (NULL when there is none), the DMMF models and enums,
\* the schema text, and the resolved output path.  Prisma has validated the
\* schema, and the schema text declares every DMMF model and field.
\* ------------------------------------------------------------------------

IdField(name, type) == [ScalarField(name, type) EXCEPT !.isId = TRUE]

Optional(field) == [field EXCEPT !.isRequired = FALSE]

\* the schema block of a model: one property per field, with the @id and
\* @db.<native type> attributes the field carries
modelBlock(model) ==
  [name |-> model.name,
   properties |->
     [j \in 1..Len(model.fields) |->
        [name |-> model.fields[j].name,
         attributes |->
           (IF model.fields[j].isId THEN <<[group |-> NULL, name |-> "id"]>> ELSE <<>>)
           \o (IF model.fields[j].nativeType # NULL
               THEN <<[group |-> "db", name |-> model.fields[j].nativeType]>>
               ELSE <<>>)]]]

schemaText(models) == map(models, modelBlock)

Schema(models, enums) == [models |-> models, enums |-> enums]

\* Post and Tag in an implicit many-to-many relation; extra is the type of
\* one more scalar field of Post, or NULL
BlogModels(postIdType, tagIdType, extra, tagFirst) ==
  LET Post == Model("Post",
                <<IdField("id", postIdType)>>
                \o (IF extra = NULL THEN <<>> ELSE <<ScalarField("body", extra)>>)
                \o <<ListRelationField("tags", "Tag", "PostToTag")>>)
      Tag == Model("Tag",
               <<IdField("id", tagIdType), ListRelationField("posts", "Post", "PostToTag")>>)
  IN IF tagFirst THEN <<Tag, Post>> ELSE <<Post, Tag>>

BlogSchemas ==
  {Schema(BlogModels(p, t, extra, tagFirst), <<>>) :
     p \in {"Int"}, t \in {"Int", "String"}, extra \in {NULL, "Bytes"},
     tagFirst \in BOOLEAN}

\* User { friends User[] @relation("Friends"), friendOf User[] @relation("Friends") }
SelfRelationModels ==
  <<Model("User",
      <<IdField("id", "Int"),
        ListRelationField("friends", "User", "Friends"),
        ListRelationField("friendOf", "User", "Friends")>>)>>

\* two implicit many-to-many relations between Post and Tag
DoubleRelationModels ==
  <<Model("Post",
      <<IdField("id", "Int"),
        ListRelationField("tags", "Tag", "Tagged"),
        ListRelationField("pins", "Tag", "Pinned")>>),
    Model("Tag",
      <<IdField("id", "Int"),
        ListRelationField("posts", "Post", "Tagged"),
        ListRelationField("pinnedBy", "Post", "Pinned")>>)>>

\* Post-Tag and Tag-Topic in implicit many-to-many relations; postsFirst is
\* the order of the two relation fields of Tag
ChainModels(postsFirst) ==
  LET posts == ListRelationField("posts", "Post", "PostToTag")
      topics == ListRelationField("topics", "Topic", "TagToTopic")
  IN <<Model("Post",
         <<IdField("id", "Int"), ListRelationField("tags", "Tag", "PostToTag")>>),
       Model("Tag",
         <<IdField("id", "Int")>>
         \o (IF postsFirst THEN <<posts, topics>> ELSE <<topics, posts>>)),
       Model("Topic",
         <<IdField("id", "Int"), ListRelationField("tags", "Tag", "TagToTopic")>>)>>

\* Note { labels Label[] } whose list field is the only field of its
\* relation name, next to the Post/Tag pair
LoneFieldModels(noteFirst) ==
  LET Note == Model("Note",
                <<IdField("id", "Int"), ListRelationField("labels", "Label", "LabelToNote")>>)
      Label == Model("Label", <<IdField("id", "Int")>>)
  IN IF noteFirst
     THEN <<Note, Label>> \o BlogModels("Int", "Int", NULL, FALSE)
     ELSE BlogModels("Int", "Int", NULL, FALSE) \o <<Note, Label>>

ManyToManySchemas ==
  {Schema(models, <<>>) :
     models \in {SelfRelationModels, DoubleRelationModels}
                  \cup {ChainModels(b) : b \in BOOLEAN}
                  \cup {LoneFieldModels(b) : b \in BOOLEAN}}

\* User { id Int @id @default(autoincrement()), email String @unique }
UserModel ==
  Model("User",
    <<[IdField("id", "Int") EXCEPT !.default = FnDefault("autoincrement", <<>>)],
      [ScalarField("email", "String") EXCEPT !.isUnique = TRUE]>>)

UserSchemas == {Schema(<<UserModel>>, <<>>)}

ScalarTypes ==
  {"BigInt", "Boolean", "Bytes", "DateTime", "Decimal", "Float", "Json", "Int", "String"}

\* Thing { id Int @id, value T? }
ThingModel(type, nativeType) ==
  Model("Thing",
    <<IdField("id", "Int"),
      Optional([ScalarField("value", type) EXCEPT !.nativeType = nativeType])>>)

ThingSchemas ==
  {Schema(<<ThingModel(type, NULL)>>, <<>>) : type \in ScalarTypes}
    \cup {Schema(<<ThingModel("DateTime", "Time")>>, <<>>),
           Schema(<<ThingModel("DateTime", "Timestamptz")>>, <<>>),
           Schema(<<ThingModel("String", "VarChar")>>, <<>>)}

\* Place { id Int @id } and Visit { id Int @id, placeId T,
\* place Place @relation(fields: [placeId], references: [id]) }, T a type
\* outside the vocabulary of the type mappers
VisitModels ==
  <<Model("Place", <<IdField("id", "Int"), ListRelationField("visits", "Visit", "PlaceToVisit")>>),
    Model("Visit",
      <<IdField("id", "Int"),
        ScalarField("placeId", "Unsupported"),
        OwningRelationField("place", "Place", "PlaceToVisit", <<"placeId">>, <<"id">>, NULL)>>)>>

\* a field of a type outside the vocabulary, alone and as an FK column
UnmappedSchemas ==
  {Schema(<<ThingModel("Unsupported", NULL)>>, <<>>), Schema(VisitModels, <<>>)}

DeleteActions ==
  {NULL, "Cascade", "SetNull", "SetDefault", "Restrict", "NoAction", "Purge"}

\* Profile { userId Int @unique, user User @relation(fields: [userId],
\* references: [id], onDelete: ...) } and User { profiles Profile[] }
ProfileModels(onDelete) ==
  <<Model("User",
      <<IdField("id", "Int"), ListRelationField("profiles", "Profile", "ProfileToUser")>>),
    Model("Profile",
      <<IdField("id", "Int"),
        ScalarField("userId", "Int"),
        OwningRelationField("user", "User", "ProfileToUser", <<"userId">>, <<"id">>, onDelete)>>)>>

\* Invoice { customer Customer @relation(fields: [region, number],
\* references: [region, number], onDelete: ...) } and Customer with the
\* composite key @@id([region, number])
InvoiceModels(onDelete) ==
  <<[Model("Customer",
       <<ScalarField("region", "String"), ScalarField("number", "Int"),
         ListRelationField("invoices", "Invoice", "CustomerToInvoice")>>)
       EXCEPT !.primaryKey = [name |-> NULL, fields |-> <<"region", "number">>]],
    Model("Invoice",
      <<IdField("id", "Int"),
        ScalarField("region", "String"),
        ScalarField("number", "Int"),
        OwningRelationField("customer", "Customer", "CustomerToInvoice",
                            <<"region", "number">>, <<"region", "number">>, onDelete)>>)>>

\* also the one-to-one relation User { profile Profile? }
RelationSchemas ==
  {Schema(ProfileModels(a), <<>>) : a \in DeleteActions}
    \cup {Schema(InvoiceModels(a), <<>>) : a \in DeleteActions}
    \cup {Schema([ProfileModels(NULL) EXCEPT
                    ![1].fields[2] = [@ EXCEPT !.name = "profile", !.isList = FALSE,
                                               !.isRequired = FALSE]],
                  <<>>)}

\* Account { email, provider, @@unique([email, provider], name: ...) ... }:
\* one unique index on (email, provider) per name, NULL for an unnamed one
AccountModel(indexNames) ==
  [Model("Account",
     <<IdField("id", "Int"), ScalarField("email", "String"), ScalarField("provider", "String")>>)
     EXCEPT !.uniqueIndexes =
       [i \in 1..Len(indexNames) |->
          [name |-> indexNames[i], fields |-> <<"email", "provider">>]]]

IndexNames == {NULL, "Account_email_provider_key", "login_key", "login"}

AccountSchemas ==
  {Schema(<<AccountModel(<<n>>)>>, <<>>) : n \in IndexNames}
    \cup {Schema(<<AccountModel(<<NULL, "login_key", "login">>)>>, <<>>)}

\* Doc { id String @id @default(dbgenerated()), data Bytes }
DocModel ==
  Model("Doc",
    <<[IdField("id", "String") EXCEPT !.default = FnDefault("dbgenerated", <<>>)],
      ScalarField("data", "Bytes")>>)

DocSchemas == {Schema(<<DocModel>>, <<>>)}

\* values of field.default: literals, lists of literals and function calls
DefaultValues ==
  {NumberLit(0), NumberLit(7), StringLit(""), StringLit("on"),
   BooleanLit(FALSE), BooleanLit(TRUE),
   ListDefault(<<>>), ListDefault(<<StringLit("a"), StringLit("b")>>),
   FnDefault("now", <<>>), FnDefault("autoincrement", <<>>),
   FnDefault("dbgenerated", <<>>), FnDefault("dbgenerated", <<StringLit("gen_id()")>>),
   FnDefault("uuid", <<>>), FnDefault("uuid", <<NumberLit(7)>>),
   FnDefault("cuid", <<>>), FnDefault("nanoid", <<NumberLit(8)>>)}

\* Setting { id Int @id, value <type of the default> @default(...) }
SettingModel(defVal) ==
  Model("Setting",
    <<IdField("id", "Int"),
      [ScalarField("value",
                   CASE defVal.kind = "number" -> "Int"
                     [] defVal.kind = "boolean" -> "Boolean"
                     [] defVal.kind = "fn" /\ defVal.name = "now" -> "DateTime"
                     [] defVal.kind = "fn" /\ defVal.name = "autoincrement" -> "Int"
                     [] OTHER -> "String")
         EXCEPT !.default = defVal, !.isList = (defVal.kind = "list")]>>)

DefaultSchemas ==
  {Schema(<<SettingModel(defVal)>>, <<>>) : defVal \in DefaultValues}
    \cup {Schema(<<[SettingModel(FnDefault("autoincrement", <<>>))
                      EXCEPT !.fields[2].type = "BigInt"]>>, <<>>)}

\* Member { role Role } with enum Role { ADMIN, USER }
RoleEnum ==
  [name |-> "Role", dbName |-> NULL,
   values |-> <<[name |-> "ADMIN", dbName |-> NULL], [name |-> "USER", dbName |-> NULL]>>]

MemberModel ==
  Model("Member",
    <<IdField("id", "Int"), [ScalarField("role", "Role") EXCEPT !.kind = "enum"]>>)

\* also with @@map("crew's") on the model and @map("it's") on ADMIN
MemberSchemas ==
  {Schema(<<MemberModel>>, <<RoleEnum>>),
   Schema(<<[MemberModel EXCEPT !.dbName = "crew's"]>>,
          <<[RoleEnum EXCEPT !.values[1].dbName = "it's"]>>)}

Schemas ==
  BlogSchemas \cup UserSchemas \cup ThingSchemas \cup RelationSchemas
    \cup AccountSchemas \cup MemberSchemas \cup DocSchemas \cup UnmappedSchemas
    \cup ManyToManySchemas \cup DefaultSchemas

SupportedProviders == {"postgresql", "mysql", "sqlite"}
Providers == SupportedProviders \cup {"postgres", "mongodb", "sqlserver", "cockroachdb", NULL}

\* resolved output paths: folders, a .ts file, a name ending in ts without
\* the dot, and the root
OutputPaths == {"/app/drizzle", "/app/drizzle/schema.ts", "/app/ts", "/"}

Options(provider, schema, outputPath) ==
  [provider |-> provider, models |-> schema.models, enums |-> schema.enums,
   datamodel |-> schemaText(schema.models), outputPath |-> outputPath]

\* every schema on the three dialects; the remaining providers are tried on
\* the User and the Post/Tag schemas
AllOptions ==
  {Options(p, sch, "/app/drizzle") : p \in SupportedProviders, sch \in Schemas}
    \cup {Options(p, sch, path) :
            p \in Providers, sch \in UserSchemas, path \in OutputPaths}
    \cup {Options(p, Schema(BlogModels("Int", "Int", NULL, FALSE), <<>>), "/app/drizzle") :
            p \in Providers \ SupportedProviders}

\* the options of the invocations that follow the first one in a process
RepeatOptions ==
  {Options(p, sch, "/app/drizzle") : p \in {"postgresql", "mysql"}, sch \in UserSchemas}
    \cup {Options("sqlite", Schema(BlogModels("Int", "Int", NULL, FALSE), <<>>), "/app/drizzle"),
           Options("postgresql", Schema(<<ThingModel("Bytes", NULL)>>, <<>>), "/app/drizzle"),
           Options("mongodb", Schema(<<UserModel>>, <<>>), "/app/drizzle/schema.ts")}

\* ------------------------------------------------------------------------
\* The generator process
\* ------------------------------------------------------------------------

VARIABLES
  pc,                 \* where onGenerate stands: idle, switch, write, done, failed
  runs,               \* onGenerate invocations so far in this process
  options,            \* the options of the current invocation
  imports,            \* pgImports, mySqlImports, sqliteImports (module scope)
  drizzleImports,     \* the drizzleImports set of each generator module
  called,             \* the dialect generators called by this invocation
  manyToManyModels,   \* the join models the called generator synthesized
  modelsWithImplicit, \* its working model list
  tables,             \* its table declarations
  rqb,                \* its relation declarations
  output,             \* the text it returned, NULL before
  error,              \* what this invocation threw, NULLREC if nothing
  writes              \* the recursiveWrite calls of this invocation

vars ==
  <<pc, runs, options, imports, drizzleImports, called, manyToManyModels,
    modelsWithImplicit, tables, rqb, output, error, writes>>

NoOptions == Options(NULL, Schema(<<>>, <<>>), "")

Init ==
  /\ pc = "idle"
  /\ runs = 0
  /\ options = NoOptions
  /\ imports = [d \in Dialects |-> initialImports(d)]
  /\ drizzleImports = [d \in Dialects |-> initialDrizzleImports(d)]
  /\ called = <<>>
  /\ manyToManyModels = <<>>
  /\ modelsWithImplicit = <<>>
  /\ tables = <<>>
  /\ rqb = <<>>
  /\ output = NULL
  /\ error = NULLREC
  /\ writes = <<>>

\* Prisma invokes onGenerate: the first invocation of a process with any
\* options, a later one with any of RepeatOptions
Invoke ==
  /\ pc = "idle"
  /\ runs < MaxRuns
  /\ \E o \in (IF runs = 0 THEN AllOptions ELSE RepeatOptions) : options' = o
  /\ pc' = "switch"
  /\ runs' = runs + 1
  /\ called' = <<>>
  /\ manyToManyModels' = <<>>
  /\ modelsWithImplicit' = <<>>
  /\ tables' = <<>>
  /\ rqb' = <<>>
  /\ output' = NULL
  /\ error' = NULLREC
  /\ writes' = <<>>
  /\ UNCHANGED <<imports, drizzleImports>>

\* const dbType = options.datasources[0]?.provider
dbType == options.provider

\* a switch arm that calls the generator of dialect d
callGenerator(d) ==
  \E r \in {generateSchema(d, options, imports[d], drizzleImports[d])} :
     /\ called' = Append(called, d)
     /\ imports' = [imports EXCEPT ![d] = r.imports]
     /\ drizzleImports' = [drizzleImports EXCEPT ![d] = r.drizzle]
     /\ modelsWithImplicit' = r.modelsWithImplicit
     /\ manyToManyModels' =
          SubSeq(r.modelsWithImplicit, Len(options.models) + 1, Len(r.modelsWithImplicit))
     /\ tables' = r.tables
     /\ rqb' = r.rqb
     /\ output' = r.output
     /\ error' = r.err
     /\ options' = [options EXCEPT !.models = r.models]
     /\ pc' = IF r.err = NULLREC THEN "write" ELSE "failed"
     /\ UNCHANGED <<runs, writes>>

GeneratePg ==
  /\ pc = "switch"
  /\ dbType \in {"postgres", "postgresql"}
  /\ callGenerator("pg")

GenerateMySql ==
  /\ pc = "switch"
  /\ dbType = "mysql"
  /\ callGenerator("mysql")

GenerateSQLite ==
  /\ pc = "switch"
  /\ dbType = "sqlite"
  /\ callGenerator("sqlite")

\* case undefined
ThrowUndetermined ==
  /\ pc = "switch"
  /\ dbType = NULL
  /\ error' = GeneratorError(
       "Unable to determine database type.\nMake sure datasource.provider is specified.")
  /\ pc' = "failed"
  /\ UNCHANGED <<runs, options, imports, drizzleImports, called, manyToManyModels,
                 modelsWithImplicit, tables, rqb, output, writes>>

\* a default arm that falls back to the SQLite generator
ThrowInvalid_fallsBackToSQLite ==
  /\ pc = "switch"
  /\ dbType \notin {"postgres", "postgresql", "mysql", "sqlite", NULL}
  /\ callGenerator("sqlite")

\* case 'mongodb' and default
ThrowInvalid ==
  /\ pc = "switch"
  /\ dbType \notin {"postgres", "postgresql", "mysql", "sqlite", NULL}
  /\ error' = GeneratorError(
       "Invalid database type for Drizzle schema generation: " \o dbType
         \o ".\nSupported database types: PostgreSQL, MySQL, SQLite.")
  /\ pc' = "failed"
  /\ UNCHANGED <<runs, options, imports, drizzleImports, called, manyToManyModels,
                 modelsWithImplicit, tables, rqb, output, writes>>

\* path.join of two segments: joined with a separator, runs of separators
\* collapsed into one
RECURSIVE collapseSeparators(_)
collapseSeparators(str) ==
  IF Len(str) < 2 THEN str
  ELSE IF CharAt(str, 1) = "/" /\ CharAt(str, 2) = "/"
  THEN collapseSeparators(Tail(str))
  ELSE CharAt(str, 1) \o collapseSeparators(Tail(str))

pathJoin(a, b) == collapseSeparators(a \o "/" \o b)

\* a schema path that takes every output path for a folder
schemaPath_alwaysFolder(folderPath) == pathJoin(folderPath, "/schema.ts")

\* folderPath.endsWith('.ts') ? folderPath : path.join(folderPath, '/schema.ts')
schemaPath(folderPath) ==
  IF endsWith(folderPath, ".ts") THEN folderPath ELSE pathJoin(folderPath, "/schema.ts")

\* a writer that is also reached when the run has thrown
Write_afterFailure ==
  /\ pc \in {"write", "failed"}
  /\ writes' = Append(writes, [path |-> schemaPath(options.outputPath),
                               content |-> IF output = NULL THEN "" ELSE output])
  /\ pc' = "done"
  /\ UNCHANGED <<runs, options, imports, drizzleImports, called, manyToManyModels,
                 modelsWithImplicit, tables, rqb, output, error>>

\* recursiveWrite(schemaPath, output)
Write ==
  /\ pc = "write"
  /\ writes' = Append(writes, [path |-> schemaPath(options.outputPath), content |-> output])
  /\ pc' = "done"
  /\ UNCHANGED <<runs, options, imports, drizzleImports, called, manyToManyModels,
                 modelsWithImplicit, tables, rqb, output, error>>

\* onGenerate has returned or thrown; the process waits for the next call
Return ==
  /\ pc \in {"done", "failed"}
  /\ pc' = "idle"
  /\ UNCHANGED <<runs, options, imports, drizzleImports, called, manyToManyModels,
                 modelsWithImplicit, tables, rqb, output, error, writes>>

Next ==
  \/ Invoke
  \/ GeneratePg
  \/ GenerateMySql
  \/ GenerateSQLite
  \/ ThrowUndetermined
  \/ ThrowInvalid
  \/ Write
  \/ Return

Spec == Init /\ [][Next]_vars

\* ------------------------------------------------------------------------
\* Properties
\* ------------------------------------------------------------------------

\* the called generator has returned or thrown
generatorEnded == called # <<>>

\* the called generator has returned its text
generatorReturned == called # <<>> /\ error = NULLREC

\* String.prototype.split for a non-empty separator
RECURSIVE split(_, _)
split(str, sep) ==
  IF \E i \in 1..(Len(str) - Len(sep) + 1) : SubSeq(str, i, i + Len(sep) - 1) = sep
  THEN LET i == CHOOSE i \in 1..(Len(str) - Len(sep) + 1) :
                  /\ SubSeq(str, i, i + Len(sep) - 1) = sep
                  /\ \A j \in 1..(i - 1) : SubSeq(str, j, j + Len(sep) - 1) # sep
       IN <<SubSeq(str, 1, i - 1)>> \o split(SubSeq(str, i + Len(sep), Len(str)), sep)
  ELSE <<str>>

\* the names an import statement of the module `from` lists, {} when the
\* text holds no such statement
importedNames(text, from) ==
  LET lines == split(text, "\n")
      IsImport(line) == /\ startsWith(line, "import { ")
                        /\ endsWith(line, " } from '" \o from \o "'")
      found == SelectSeq(lines, IsImport)
  IN IF found = <<>> THEN {}
     ELSE LET names == split(SubSeq(found[1], Len("import { ") + 1,
                                    Len(found[1]) - Len(" } from '" \o from \o "'")), ", ")
          IN {names[i] : i \in 1..Len(names)}

\* Post { id, tags Tag[] } and Tag { id, posts Post[] }, in either order
IsPostTag(models) ==
  \E t \in {"Int", "String"}, tagFirst \in BOOLEAN :
     models = BlogModels("Int", t, NULL, tagFirst)

\* Post and Tag in an implicit many-to-many relation, Post with or without
\* one more scalar field
IsManyToManyPair(models) ==
  \E t \in {"Int", "String"}, extra \in {NULL, "Bytes"}, tagFirst \in BOOLEAN :
     models = BlogModels("Int", t, extra, tagFirst)

\* the table declarations of the model named name
declarationsOf(name) ==
  {i \in 1..Len(tables) :
     \E c \in {"pgTable", "mysqlTable", "sqliteTable"} :
        startsWith(tables[i], "export const " \o name \o " = " \o c \o "(")}

\* C1: on each of the three dialects, Post { id, tags Tag[] } and
\* Tag { id, posts Post[] } with a schema text declaring Post and Tag only
\* generate without error, and the output holds exactly one table
\* declaration of the join model, with two FK columns referencing Post.id
\* and Tag.id.
C1_JoinTableOnEveryDialect ==
  (generatorEnded /\ IsPostTag(options.models)) =>
    /\ error = NULLREC
    /\ Len(manyToManyModels) = 1
    /\ Cardinality(declarationsOf(manyToManyModels[1].name)) = 1
    /\ \A i \in declarationsOf(manyToManyModels[1].name) :
          /\ includes(tables[i], "\tPostId: ") /\ includes(tables[i], "Post.id")
          /\ includes(tables[i], "\tTagId: ") /\ includes(tables[i], "Tag.id")
          /\ output # NULL /\ includes(output, tables[i])

idTypeOf(model) ==
  model.fields[CHOOSE i \in 1..Len(model.fields) : model.fields[i].isId].type

\* C2: for two models in an implicit many-to-many relation, in either input
\* order, the synthesizer returns exactly one join model, named
\* {First}To{Second} with First the lexicographically smaller model name,
\* and its two scalar FK fields have the types of the two models' id fields.
C2_JoinModelNamedSmallerFirst ==
  (generatorEnded /\ IsManyToManyPair(options.models)) =>
    LET a == options.models[1].name
        b == options.models[2].name
        first == IF localeCompare(a, b) <= 0 THEN a ELSE b
        second == IF localeCompare(a, b) <= 0 THEN b ELSE a
    IN /\ Len(manyToManyModels) = 1
       /\ manyToManyModels[1].name = first \o "To" \o second
       /\ \A m \in {options.models[1], options.models[2]} :
            \E i \in 1..Len(manyToManyModels[1].fields) :
               /\ manyToManyModels[1].fields[i].kind = "scalar"
               /\ manyToManyModels[1].fields[i].name = m.name \o "Id"
               /\ manyToManyModels[1].fields[i].type = idTypeOf(m)

\* C3: in every run of onGenerate the file writer is invoked at most once,
\* only after the selected generator has returned its complete text, which
\* is what it writes; a run that raised an error never invokes it.
C3_WriteOnceAfterCompleteText ==
  /\ Len(writes) <= 1
  /\ writes # <<>> =>
       /\ pc \in {"done", "idle"}
       /\ Len(called) = 1
       /\ error = NULLREC
       /\ output # NULL
       /\ writes[1].content = output
  /\ error # NULLREC => writes = <<>>

C3_Written == pc = "done" /\ Len(writes) = 1 /\ runs = MaxRuns

\* the text the called generator returns on these options in a fresh process
freshOutput ==
  generateSchema(called[1], options, initialImports(called[1]),
                 initialDrizzleImports(called[1])).output

\* C4: the text a generator returns is a function of its input alone: an
\* invocation returns the text the first invocation of a fresh process
\* returns on the same options, whatever was generated before.
C4_OutputDependsOnInputOnly ==
  generatorReturned => output = freshOutput

hasBytesField(models) ==
  \E i \in 1..Len(models) : \E j \in 1..Len(models[i].fields) :
     /\ models[i].fields[j].kind = "scalar"
     /\ models[i].fields[j].type = "Bytes"

\* C5: on Postgres and MySQL, if any model has a scalar field of type Bytes
\* the generator raises a GeneratorError and the file writer is not invoked.
C5_BytesRaisesGeneratorError ==
  (generatorEnded /\ called[1] \in {"pg", "mysql"} /\ hasBytesField(options.models)) =>
    /\ error # NULLREC
    /\ error.type = "GeneratorError"
    /\ writes = <<>>

unsupportedProvider ==
  runs > 0 /\ options.provider \notin {"postgres", "postgresql", "mysql", "sqlite"}

\* C6: if the provider of the first datasource is missing or is none of
\* postgres, postgresql, mysql, sqlite, onGenerate raises a GeneratorError
\* before any dialect generator is called, and nothing is written.
C6_UnsupportedProviderRejected ==
  unsupportedProvider =>
    /\ called = <<>>
    /\ writes = <<>>
    /\ output = NULL
    /\ pc # "switch" => (error # NULLREC /\ error.type = "GeneratorError")
    /\ pc \in {"switch", "failed", "idle"}

C6_Rejected == unsupportedProvider /\ pc = "failed" /\ error # NULLREC

\* the fields of a model that own foreign keys and have no delete action
defaultCascadeFields(model) ==
  {j \in 1..Len(model.fields) :
     ownsForeignKeys(model.fields[j]) /\ model.fields[j].relationOnDelete = NULL}

\* C7: on every dialect, for every relation field that owns foreign keys and
\* has no explicit delete action, with one FK column or several, the table
\* text carries onDelete('cascade') and onUpdate('cascade') for the relation.
C7_DefaultCascadeEmitted ==
  generatorReturned =>
    \A i \in 1..Len(modelsWithImplicit) :
       /\ Occurrences(tables[i], ".onDelete('cascade')")
            >= Cardinality(defaultCascadeFields(modelsWithImplicit[i]))
       /\ Occurrences(tables[i], ".onUpdate('cascade')")
            >= Cardinality(defaultCascadeFields(modelsWithImplicit[i]))

autoIndexName(model, idx) == model.name \o "_" \o join(idx.fields, "_") \o "_key"

\* the declaration of a unique index with this key and this name
indexEntry(key, name) == "\t'" \o key \o "': uniqueIndex('" \o name \o "')"

\* C8 (as stated): an index whose name is absent or ends in _key is emitted
\* with _unique_idx in place of _key, as the declaration key and as the name
\* passed to uniqueIndex(...); any other name is emitted verbatim in both.
C8_KeySuffixRewrittenInBothPlaces ==
  generatorReturned =>
    \A i \in 1..Len(modelsWithImplicit) :
       \A k \in 1..Len(modelsWithImplicit[i].uniqueIndexes) :
          LET idx == modelsWithImplicit[i].uniqueIndexes[k]
              src == Coalesce(idx.name, autoIndexName(modelsWithImplicit[i], idx))
              expected == IF endsWith(src, "_key")
                          THEN sliceTo(src, Len(src) - 4) \o "_unique_idx"
                          ELSE src
          IN includes(tables[i], indexEntry(expected, expected))

\* C8 (amended): an index without a name is declared under the key
\* {table}_{fields}_unique_idx and passes {table}_{fields}_key to
\* uniqueIndex(...); an index with a name, ending in _key or not, uses that
\* name verbatim in both places.
C8_UnnamedIndexKeyRewritten ==
  generatorReturned =>
    \A i \in 1..Len(modelsWithImplicit) :
       \A k \in 1..Len(modelsWithImplicit[i].uniqueIndexes) :
          LET idx == modelsWithImplicit[i].uniqueIndexes[k]
              auto == autoIndexName(modelsWithImplicit[i], idx)
          IN IF idx.name = NULL
             THEN includes(tables[i],
                    indexEntry(sliceTo(auto, Len(auto) - 4) \o "_unique_idx", auto))
             ELSE includes(tables[i], indexEntry(idx.name, idx.name))

C8_NamedAndUnnamedIndexes ==
  /\ generatorReturned
  /\ \E i \in 1..Len(modelsWithImplicit) :
        /\ \E k \in 1..Len(modelsWithImplicit[i].uniqueIndexes) :
              modelsWithImplicit[i].uniqueIndexes[k].name = NULL
        /\ \E k \in 1..Len(modelsWithImplicit[i].uniqueIndexes) :
              modelsWithImplicit[i].uniqueIndexes[k].name = "login_key"

userOnPostgres == generatorReturned /\ called[1] = "pg" /\ options.models = <<UserModel>>

\* C9 (as stated): on Postgres, User { id Int @id @default(autoincrement()),
\* email String @unique }, both required, yields the column texts
\* id: serial('id').primaryKey() and email: text('email').unique() and a
\* pg-core import line listing serial and text.
C9_UserColumnsWithoutNotNull ==
  userOnPostgres =>
    /\ includes(output, "\tid: serial('id').primaryKey()")
    /\ includes(output, "\temail: text('email').unique()")
    /\ {"serial", "text"} \subseteq importedNames(output, "drizzle-orm/pg-core")

\* C9 (amended): the column texts are id: serial('id').notNull().primaryKey()
\* and email: text('email').notNull().unique(), and the pg-core import line
\* lists serial and text.
C9_UserColumnsNotNull ==
  userOnPostgres =>
    /\ includes(output, "\tid: serial('id').notNull().primaryKey(),\n")
    /\ includes(output, "\temail: text('email').notNull().unique()\n")
    /\ {"serial", "text"} \subseteq importedNames(output, "drizzle-orm/pg-core")

C9_UserGenerated == userOnPostgres /\ pc = "done"

\* C10: every failure a run can raise is of the distinguished
\* generator-error type GeneratorError, not a plain error.
C10_EveryFailureIsGeneratorError ==
  error # NULLREC => error.type = "GeneratorError"

\* the entries of the column list of a table declaration
columnList(table) ==
  split(split(split(table, "', {\n")[2], "\n}")[1], ",\n")

\* the scalar fields of a model whose type the type mappers know
mappedFields(model) ==
  SelectSeq(model.fields, LAMBDA f : f.kind = "scalar" /\ f.type \in ScalarTypes)

hasUnmappedField(models) ==
  \E i \in 1..Len(models) : \E j \in 1..Len(models[i].fields) :
     /\ models[i].fields[j].kind = "scalar"
     /\ models[i].fields[j].type \notin ScalarTypes

\* C11: on every dialect, a scalar field whose type has no dialect mapping
\* contributes no entry to the column list of its table, whether or not a
\* relation field names it as its FK column; the other columns are emitted
\* and the run succeeds.
C11_UnmappedFieldOmitted ==
  (generatorEnded /\ hasUnmappedField(options.models)) =>
    /\ error = NULLREC
    /\ \A i \in 1..Len(modelsWithImplicit) :
          LET entries == columnList(tables[i])
              mapped == mappedFields(modelsWithImplicit[i])
          IN /\ Len(entries) = Len(mapped)
             /\ \A k \in 1..Len(entries) :
                   startsWith(entries[k], "\t" \o mapped[k].name \o ": ")

\* the folder holding the file at path, "/" for a file under the root
dirname(path) ==
  LET parts == split(path, "/")
      dir == join(SubSeq(parts, 1, Len(parts) - 1), "/")
  IN IF dir = "" THEN "/" ELSE dir

basename(path) == LET parts == split(path, "/") IN parts[Len(parts)]

\* C12: if the resolved output path ends with .ts the schema text is written
\* to exactly that path; otherwise the path is a folder and the text is
\* written to schema.ts inside it.
C12_SchemaPathFromOutputPath ==
  writes # <<>> =>
    /\ writes[1].content = output
    /\ IF endsWith(options.outputPath, ".ts")
       THEN writes[1].path = options.outputPath
       ELSE /\ dirname(writes[1].path) = options.outputPath
            /\ basename(writes[1].path) = "schema.ts"

C12_WrittenToFile ==
  /\ pc = "done"
  /\ options.outputPath = "/app/drizzle/schema.ts"
  /\ writes[1].path = "/app/drizzle/schema.ts"

\* the relation fields of models that stand in a relation-name group of
\* list fields only, as positions <<model index, field index>>
manyToManyRefs(models) ==
  {filterManyToManyRelationFields(models)[i] :
     i \in 1..Len(filterManyToManyRelationFields(models))}

\* the fields of the relation-name group of the field at ref
groupOf(models, ref) ==
  {r \in manyToManyRefs(models) :
     FieldAt(models, r).relationName = FieldAt(models, ref).relationName}

\* C13: after many-to-many synthesis of Post and Tag, in either input order,
\* both original relation fields are list-valued with empty
\* relationFromFields, the type of each is the name of the appended join
\* model, and every relation field of the working list targets a model of
\* the list.
C13_FieldsTargetJoinModel ==
  (generatorEnded /\ IsManyToManyPair(options.models)) =>
    /\ \A ref \in manyToManyRefs(options.models) :
         /\ FieldAt(modelsWithImplicit, ref).isList
         /\ FieldAt(modelsWithImplicit, ref).relationFromFields = <<>>
         /\ Len(manyToManyModels) = 1
         /\ FieldAt(modelsWithImplicit, ref).type = manyToManyModels[1].name
    /\ \A i \in 1..Len(modelsWithImplicit) :
         \A j \in 1..Len(modelsWithImplicit[i].fields) :
            modelsWithImplicit[i].fields[j].kind = "object" =>
              \E k \in 1..Len(modelsWithImplicit) :
                 modelsWithImplicit[k].name = modelsWithImplicit[i].fields[j].type
\* the fields of a join model whose physical name is dbName
physicalFields(model, dbName) ==
  {model.fields[i] : i \in {k \in 1..Len(model.fields) : model.fields[k].dbName = dbName}}

\* C14: in the join model synthesized for Post and Tag, the scalar FK field
\* with physical name A is PostId, of the type of the id of Post, the
\* lexicographically smaller model, and the scalar FK field with physical
\* name B is TagId, of the type of the id of Tag.
C14_ColumnAIsSmallerModel ==
  (generatorEnded /\ IsManyToManyPair(options.models)) =>
    \A k \in 1..Len(manyToManyModels) :
       LET a == options.models[1]
           b == options.models[2]
           first == IF localeCompare(a.name, b.name) <= 0 THEN a ELSE b
           second == IF localeCompare(a.name, b.name) <= 0 THEN b ELSE a
       IN /\ \E f \in physicalFields(manyToManyModels[k], "A") :
               f.kind = "scalar" /\ f.name = first.name \o "Id" /\ f.type = idTypeOf(first)
          /\ \E f \in physicalFields(manyToManyModels[k], "B") :
               f.kind = "scalar" /\ f.name = second.name \o "Id" /\ f.type = idTypeOf(second)
\* the join models synthesized for the relation name of the field at ref
joinModelsOf(ref) ==
  {k \in 1..Len(manyToManyModels) :
     manyToManyModels[k].dbName = "_" \o FieldAt(options.models, ref).relationName}

\* C15: synthesis raises no error; a relation-name group of list fields
\* that does not hold exactly two fields yields no join model and keeps
\* its fields as they were, and every group of exactly two fields yields
\* exactly one join model, wherever the groups stand in the model list.
C15_OtherGroupsUnaffected ==
  (/\ generatorEnded
   /\ \E ref \in manyToManyRefs(options.models) :
         Cardinality(groupOf(options.models, ref)) # 2) =>
    /\ Len(modelsWithImplicit) >= Len(options.models)
    /\ \A ref \in manyToManyRefs(options.models) :
         IF Cardinality(groupOf(options.models, ref)) = 2
         THEN Cardinality(joinModelsOf(ref)) = 1
         ELSE /\ joinModelsOf(ref) = {}
              /\ FieldAt(modelsWithImplicit, ref) = FieldAt(options.models, ref)
\* C16: every synthesized join model has exactly four fields with pairwise
\* distinct logical names, two scalar fields with physical names A and B
\* and two owning object fields, and its generated table has two columns,
\* also when both fields of the pair reference the same model.
C16_JoinModelHasFourDistinctFields ==
  generatorEnded =>
    \A k \in 1..Len(manyToManyModels) :
       LET fields == manyToManyModels[k].fields
       IN /\ Len(fields) = 4
          /\ \A i, j \in 1..Len(fields) : fields[i].name = fields[j].name => i = j
          /\ \A dbName \in {"A", "B"} :
               \E f \in physicalFields(manyToManyModels[k], dbName) : f.kind = "scalar"
          /\ Cardinality({i \in 1..Len(fields) :
                            /\ fields[i].kind = "object"
                            /\ Len(fields[i].relationFromFields) = 1}) = 2
          /\ error = NULLREC =>
               Len(columnList(tables[Len(options.models) + k])) = 2
\* the names of a model list are pairwise distinct
distinctNames(models) ==
  \A i, j \in 1..Len(models) : models[i].name = models[j].name => i = j

\* C17: when the input model names are pairwise distinct, synthesis leaves
\* a working model list with pairwise distinct names and no two table
\* declarations of the output have the same constant name, also for two
\* implicit many-to-many relations between the same two models.
C17_ModelNamesStayDistinct ==
  (generatorEnded /\ options.models # <<>> /\ distinctNames(options.models)) =>
    /\ Len(modelsWithImplicit) >= Len(options.models)
    /\ distinctNames(modelsWithImplicit)
    /\ \A i \in 1..Len(modelsWithImplicit) :
         Cardinality(declarationsOf(modelsWithImplicit[i].name)) <= 1
\* the owning relation fields of the input whose delete action is present
\* and is none of the five referential actions, as positions
unknownActionRefs ==
  {ref \in {flatMapFields(options.models, 1)[i] :
              i \in 1..Len(flatMapFields(options.models, 1))} :
     /\ ownsForeignKeys(FieldAt(options.models, ref))
     /\ FieldAt(options.models, ref).relationOnDelete \notin
          {NULL, "Cascade", "SetNull", "SetDefault", "Restrict", "NoAction"}}

\* C18: on every dialect, an owning relation field with an unknown delete
\* action, on one FK column or on several, makes the run fail with an error
\* whose message names the relation and the action.
C18_UnknownDeleteActionFails ==
  (generatorEnded /\ unknownActionRefs # {}) =>
    /\ error # NULLREC
    /\ \E ref \in unknownActionRefs :
         /\ includes(error.message,
                     options.models[ref[1]].name \o "_"
                       \o FieldAt(options.models, ref).name \o "_fkey")
         /\ includes(error.message, FieldAt(options.models, ref).relationOnDelete)
\* the entries of the column list of table i that declare the field
columnsOf(i, field) ==
  {columnList(tables[i])[k] :
     k \in {n \in 1..Len(columnList(tables[i])) :
              startsWith(columnList(tables[i])[n], "\t" \o field.name \o ": ")}}

\* the fields of model i of the input whose default is of one of the kinds
fieldsWithDefault(i, kinds) ==
  {options.models[i].fields[j] :
     j \in {n \in 1..Len(options.models[i].fields) :
              /\ options.models[i].fields[n].default # NULLREC
              /\ options.models[i].fields[n].default.kind \in kinds}}

\* C19: on every dialect, the column of a field whose default is a number,
\* a string or a boolean carries .default(<serialized value>), and the
\* column of a field whose default is a list of literals carries
\* .default([<serialized elements>]).
C19_LiteralDefaultEmitted ==
  generatorReturned =>
    \A i \in 1..Len(options.models) :
       /\ \A f \in fieldsWithDefault(i, {"number", "string", "boolean"}) :
            \E c \in columnsOf(i, f) :
               includes(c, ".default(" \o JSONstringify(f.default) \o ")")
       /\ \A f \in fieldsWithDefault(i, {"list"}) :
            \E c \in columnsOf(i, f) :
               includes(c, ".default(["
                             \o join(map(f.default.items, JSONstringify), ", ") \o "])")
\* C20: for every field whose default is a function call, with any name
\* and any argument list including the empty one, the run raises no error,
\* and unless the function is autoincrement the column of the field carries
\* a default fragment.
C20_FunctionDefaultNeverRaises ==
  (/\ generatorEnded
   /\ \E defVal \in DefaultValues :
        defVal.kind = "fn" /\ options.models = <<SettingModel(defVal)>>) =>
    /\ error = NULLREC
    /\ \A f \in fieldsWithDefault(1, {"fn"}) :
         f.default.name # "autoincrement" =>
           \E c \in columnsOf(1, f) : includes(c, ".default")
\* the fields of model i of the input whose default is autoincrement()
autoincrementFields(i) ==
  {f \in fieldsWithDefault(i, {"fn"}) : f.default.name = "autoincrement"}

\* C21: for a field whose default is autoincrement, MySQL appends
\* .autoincrement() to the column; Postgres emits the column with the
\* serial constructor, for Int and for BigInt fields, and no default
\* fragment; SQLite emits the column the field has without the default.
C21_AutoincrementPerDialect ==
  generatorReturned =>
    \A i \in 1..Len(options.models) : \A f \in autoincrementFields(i) :
       \E c \in columnsOf(i, f) :
          CASE called[Len(called)] = "mysql" -> includes(c, ".autoincrement()")
            [] called[Len(called)] = "pg" ->
                 /\ startsWith(c, "\t" \o f.name \o ": serial('")
                 /\ ~includes(c, ".default")
            [] called[Len(called)] = "sqlite" ->
                 /\ c = sqlitePrismaToDrizzleColumn([f EXCEPT !.default = NULLREC]).column
                 /\ ~includes(c, ".autoincrement()")
\* the text 'str' with str escaped for single quotes
quoted(str) == "'" \o s(str, "'") \o "'"

\* the enums of the input that a field of the input has as its type
usedEnums ==
  {options.enums[k] :
     k \in {n \in 1..Len(options.enums) :
              \E i \in 1..Len(options.models) : \E j \in 1..Len(options.models[i].fields) :
                 /\ options.models[i].fields[j].kind = "enum"
                 /\ options.models[i].fields[j].type = options.enums[n].name}}

\* C22: the table names and the enum value names that the Postgres and
\* the MySQL generator place between single quotes are the escaper's
\* output for the single quote.
C22_QuotedNamesEscaped ==
  (generatorReturned /\ called[Len(called)] \in {"pg", "mysql"}) =>
    /\ \A i \in 1..Len(options.models) :
         includes(tables[i],
                  "(" \o quoted(Coalesce(options.models[i].dbName, options.models[i].name))
                    \o ", {")
    /\ \A e \in usedEnums : \A k \in 1..Len(e.values) :
         includes(output, quoted(Coalesce(e.values[k].dbName, e.values[k].name)))
\* the helpers of drizzle-orm and of the three dialect modules
HelperNames ==
  {"pgTable", "mysqlTable", "sqliteTable", "pgEnum", "mysqlEnum",
   "sql", "relations", "foreignKey", "uniqueIndex", "primaryKey",
   "bigint", "boolean", "timestamp", "time", "decimal", "doublePrecision", "jsonb",
   "serial", "integer", "text", "datetime", "double", "json", "int", "varchar",
   "blob", "numeric", "real"}

\* the output calls the helper: as a tagged template for sql, else as the
\* value of a column, a key or an exported constant
helperCalled(name) ==
  IF name = "sql" THEN includes(output, "sql" \o BT)
  ELSE includes(output, ": " \o name \o "(") \/ includes(output, "= " \o name \o "(")

\* the names the import lines of the output list
allImportedNames ==
  importedNames(output, "drizzle-orm") \cup importedNames(output, coreModule(called[1]))

\* C23: in the first run of a process, the names listed in the import lines
\* of the output are exactly the helpers the output text calls.
C23_ImportsAreTheCalledHelpers ==
  (generatorReturned /\ runs = 1) =>
    allImportedNames = {n \in HelperNames \cup allImportedNames : helperCalled(n)}
\* the enum-typed fields of model i of the input
enumFields(i) ==
  {options.models[i].fields[j] :
     j \in {n \in 1..Len(options.models[i].fields) :
              options.models[i].fields[n].kind = "enum"}}

\* C24: on every dialect an enum-typed field yields a column in its table:
\* on Postgres a call of the enum constructor declared in the enum block of
\* the same output, on MySQL an inline mysqlEnum column, on SQLite an
\* inline value-list column.
C24_EnumFieldYieldsColumn ==
  generatorReturned =>
    \A i \in 1..Len(options.models) : \A f \in enumFields(i) :
       \E c \in columnsOf(i, f) :
          CASE called[Len(called)] = "pg" ->
                 /\ startsWith(c, "\t" \o f.name \o ": " \o f.type \o "('")
                 /\ includes(output, "export const " \o f.type \o " = pgEnum('")
            [] called[Len(called)] = "mysql" ->
                 startsWith(c, "\t" \o f.name \o ": mysqlEnum('") /\ includes(c, ", [")
            [] called[Len(called)] = "sqlite" -> includes(c, "[")
\* the relation fields of a model
relationFields(model) ==
  {model.fields[j] : j \in {n \in 1..Len(model.fields) : isRelField(model.fields[n])}}

\* the relation declarations of the model named name
relationsOf(name) ==
  {rqb[k] : k \in {n \in 1..Len(rqb) :
                     startsWith(rqb[n], "export const " \o name \o "Relations = ")}}

\* C25: a relation field that owns foreign keys is declared as
\* one(target, {relationName, fields, references}); a relation field is
\* declared as many(target, {relationName}) if and only if it is
\* list-valued, and every other relation field as one(...).
C25_ManyIffListValued ==
  generatorReturned =>
    \A i \in 1..Len(modelsWithImplicit) : \A f \in relationFields(modelsWithImplicit[i]) :
       \E r \in relationsOf(modelsWithImplicit[i].name) :
          /\ ownsForeignKeys(f) =>
               includes(r, "\t" \o f.name \o ": one(" \o f.type \o ", {\n\t\trelationName: '"
                             \o s(f.relationName, "'") \o "',\n\t\tfields: ["
                             \o qualified(modelsWithImplicit[i].name, f.relationFromFields)
                             \o "],\n\t\treferences: ["
                             \o qualified(f.type, f.relationToFields) \o "]\n\t})")
          /\ includes(r, "\t" \o f.name \o ": many(" \o f.type \o ", {\n\t\trelationName: '"
                           \o s(f.relationName, "'") \o "'\n\t})")
               <=> f.isList
          /\ ~f.isList => includes(r, "\t" \o f.name \o ": one(" \o f.type \o ", {")
\* the fields of model i of the input that carry a native-type annotation
annotatedFields(i) ==
  {options.models[i].fields[j] :
     j \in {n \in 1..Len(options.models[i].fields) :
              options.models[i].fields[n].nativeType # NULL}}

\* the column the dialect emits for the field when it has no annotation
unannotatedColumn(d, f) ==
  IF d = "pg" THEN pgPrismaToDrizzleColumn(f, NULL).column
  ELSE mysqlPrismaToDrizzleColumn(f, options.enums, NULL).column

\* C26: on Postgres and MySQL, in the first run of a process, a
\* native-type annotation changes the column
\* of a field only when the field is a DateTime and the annotation is time;
\* with any other annotation the column is the one of the unannotated
\* field, and every name of the dialect's import line is a constructor or
\* helper of the dialect.
C26_OnlySupportedOverrides ==
  (generatorReturned /\ runs = 1 /\ called[Len(called)] \in {"pg", "mysql"}) =>
    /\ \A i \in 1..Len(options.models) : \A f \in annotatedFields(i) :
         (f.type # "DateTime" \/ toLowerCase(f.nativeType) # "time") =>
            columnsOf(i, f) = {unannotatedColumn(called[Len(called)], f)}
    /\ importedNames(output, coreModule(called[Len(called)])) \subseteq HelperNames
importLine(line, names, from) ==
  LET listed == split(SubSeq(line, Len("import { ") + 1,
                             Len(line) - Len(" } from '" \o from \o "'")), ", ")
  IN /\ startsWith(line, "import { ")
     /\ endsWith(line, " } from '" \o from \o "'")
     /\ {listed[k] : k \in 1..Len(listed)} = names
     /\ \A k, l \in 1..Len(listed) : k < l => localeCompare(listed[k], listed[l]) < 0

\* a run has returned the tables of two models and of their join model and
\* two relation declarations, and no enum declaration
C28_TablesJoinTableAndRelations ==
  /\ generatorReturned
  /\ Len(options.models) = 2
  /\ Len(manyToManyModels) = 1
  /\ Len(tables) = 3
  /\ Len(rqb) >= 2

\* C28: the output text is, in this order, the import lines (one per
\* import source that has names, the names in alphabetical order), the enum
\* declarations, one table declaration per model of the working list in
\* list order (the input models, then the join models), and the relation
\* declarations, consecutive items separated by one blank line and nothing
\* else.
C28_OutputLayout ==
  generatorReturned =>
    LET d == called[Len(called)]
        parts == split(output, "\n\n")
        lines == split(parts[1], "\n")
        enumDeclarations == IF d = "pg" THEN pgEnums(options.enums) ELSE <<>>
    IN /\ parts = <<parts[1]>> \o enumDeclarations \o tables \o rqb
       /\ Len(tables) = Len(modelsWithImplicit)
       /\ \A i \in 1..Len(options.models) :
            modelsWithImplicit[i].name = options.models[i].name
       /\ \A i \in 1..Len(tables) :
            startsWith(tables[i], "export const " \o modelsWithImplicit[i].name \o " = ")
       /\ \A k \in 1..Len(rqb) : startsWith(rqb[k], "export const ")
       /\ IF drizzleImports[d] = {}
          THEN /\ Len(lines) = 1
               /\ importLine(lines[1], imports[d], coreModule(d))
          ELSE /\ Len(lines) = 2
               /\ importLine(lines[1], drizzleImports[d], "drizzle-orm")
               /\ importLine(lines[2], imports[d], coreModule(d))
====
